---------------------------- MODULE Spec2Model ----------------------------
(***************************************************************************)
(* A model of the RMX runtime of the COLLADA converter                     *)
(* (src/examples/convert-renderer-rmx.ts):                                 *)
(*   - RMXBoneMatrixTexture.capacity / optimalSize   (SpecSize)            *)
(*   - RMXMaterial.hash and RMXModelLoader.loadMaterial (SpecMaterial)     *)
(*   - RMXSkeletalAnimation.resetPose / sampleAnimation / exportPose       *)
(*     (SpecSampler: whole calls; SpecInterleaved: statement by statement) *)
(*                                                                         *)
(* Numbers.  Every number the sampler handles is an integer of the model   *)
(* or NaN.  Frames are fixed-point: a frame is frameNum / FrameDen, and    *)
(* the keyframe values of the tracks are multiples of FrameDen, so every   *)
(* blend (1-s)*a + s*b of the code is an integer and is computed exactly,  *)
(* as it is in IEEE arithmetic for such values.                            *)
(***************************************************************************)
EXTENDS Integers, Sequences, FiniteSets, TLC

VARIABLES
    sizeCall,    \* the last call of RMXBoneMatrixTexture.optimalSize
    materials,   \* the RMXMaterial objects loaded so far
    skeleton,    \* RMXSkeleton.bones of the loaded model
    animation,   \* the RMXAnimation that is sampled
    pose,        \* the caller's RMXPose
    dest,        \* the caller's destination buffer
    scratch,     \* the static vec1, quat1, quat2, mat1 of RMXSkeletalAnimation
    last,        \* the last sampler call: its name, frame and whether it threw
    calls,       \* the sampler calls in progress, statement by statement, per caller
    srcParse,    \* the last Source.parse: its input, the Source it built, the log
    loader,      \* the ColladaLoader job: its request, callbacks made, log, result
    scene        \* the converter's node tree, options, log and last call

sizeVars == <<sizeCall>>
matVars == <<materials>>
samplerVars == <<skeleton, animation, pose, dest, scratch, last>>
callVars == <<calls>>
sourceVars == <<srcParse>>
loaderVars == <<loader>>
sceneVars == <<scene>>
convVars == <<srcParse, loader, scene>>
rmxVars == <<sizeCall, materials, skeleton, animation, pose, dest, scratch, last, calls>>
vars == <<sizeCall, materials, skeleton, animation, pose, dest, scratch, last, calls,
          srcParse, loader, scene>>

(***************************************************************************)
(* RMXBoneMatrixTexture                                                    *)
(***************************************************************************)

\* var texels_per_matrix = 4
TexelsPerMatrix == 4

\* if (result > 2048) throw new Error("Too many bones")
MaxTextureSize == 2048

\* The small bone counts tried, 0 .. MaxSmallBones.
MaxSmallBones == 80

\* The texture widths whose capacities are tried as bone counts: 2^1 .. 2^MaxSizeExp.
MaxSizeExp == 12

CapacityNoDivide(size) ==
    size * size

\* static capacity(size): texels / texels_per_matrix
Capacity(size) ==
    (size * size) \div TexelsPerMatrix

RECURSIVE OptimalSizeLoopOffByOne(_, _)
OptimalSizeLoopOffByOne(result, bones) ==
    IF Capacity(result) <= bones
    THEN IF result * 2 > MaxTextureSize
         THEN [threw |-> TRUE, value |-> 0]
         ELSE OptimalSizeLoopOffByOne(result * 2, bones)
    ELSE [threw |-> FALSE, value |-> result]

\* The while loop of optimalSize, entered with the current result.
RECURSIVE OptimalSizeLoop(_, _)
OptimalSizeLoop(result, bones) ==
    IF Capacity(result) < bones
    THEN IF result * 2 > MaxTextureSize
         THEN [threw |-> TRUE, value |-> 0]
         ELSE OptimalSizeLoop(result * 2, bones)
    ELSE [threw |-> FALSE, value |-> result]

\* static optimalSize(bones): var result = 2; while (...) ...; return result
OptimalSize(bones) ==
    OptimalSizeLoop(2, bones)

RECURSIVE Pow(_, _)
Pow(base, e) ==
    IF e = 0 THEN 1 ELSE base * Pow(base, e - 1)

\* The bone counts optimalSize is called with: the small ones, the ones
\* around the capacity of every power-of-two width, and 100000.
BoneCounts ==
    (0 .. MaxSmallBones)
    \cup { (Pow(2, k) * Pow(2, k)) \div 4 + d : k \in 1 .. MaxSizeExp, d \in {-1, 0, 1} }
    \cup { 100000 }

SizeIdle ==
    sizeCall = [called |-> FALSE, bones |-> 0, threw |-> FALSE, value |-> 0]

\* A caller runs optimalSize(bones), e.g. new RMXBoneMatrixTexture(bones).
CallOptimalSize ==
    \E bones \in BoneCounts :
        LET out == OptimalSize(bones) IN
        /\ sizeCall' = [called |-> TRUE, bones |-> bones,
                        threw |-> out.threw, value |-> out.value]
        /\ UNCHANGED <<matVars, samplerVars, callVars, convVars>>

(***************************************************************************)
(* RMXMaterial                                                             *)
(***************************************************************************)

\* The characters material strings are made of: a letter and the separator
\* hash() joins the fields with.
Alphabet == {"a", "|"}

\* The longest texture reference tried.
MaxStrLen == 1

\* The number of materials loaded in one run.
MaxMaterials == 2

Strings ==
    UNION { [1 .. k -> Alphabet] : k \in 0 .. MaxStrLen }

\* A field of a material: null (the constructor's value, or a JSON null) or a string.
NullStr == [null |-> TRUE, s |-> <<>>]

Str(s) == [null |-> FALSE, s |-> s]

FieldValues ==
    {NullStr} \cup { Str(s) : s \in Strings }

\* (x || ""): null and the empty string both give the empty string.
OrEmpty(x) ==
    IF x.null \/ x.s = <<>> THEN <<>> ELSE x.s

\* hash(): "material|" + (diffuse || "") + "|" + (specular || "") + "|" + (normal || "")
Hash(m) ==
    <<"m", "a", "t", "e", "r", "i", "a", "l", "|">>
        \o OrEmpty(m.diffuse) \o <<"|">>
        \o OrEmpty(m.specular) \o <<"|">>
        \o OrEmpty(m.normal)

MatIdle ==
    materials = <<>>

\* loadMaterial(json): a new RMXMaterial with the three fields of the JSON;
\* loadModel collects the materials in order.
LoadMaterial ==
    /\ Len(materials) < MaxMaterials
    /\ \E d \in FieldValues, s \in FieldValues, n \in FieldValues :
           materials' = Append(materials, [diffuse |-> d, specular |-> s, normal |-> n])
    /\ UNCHANGED <<sizeVars, samplerVars, callVars, convVars>>

(***************************************************************************)
(* Numbers of the sampler                                                  *)
(***************************************************************************)

\* NaN, as produced by frame % 0 and by arithmetic on a read outside an
\* array (undefined); an integer no computation of the model reaches.
NaN == -1000003

\* A frame is frameNum / FrameDen: FrameDen = 2 gives the half frames.
FrameDen == 2

IsNaN(x) == x = NaN

FAdd(a, b) == IF IsNaN(a) \/ IsNaN(b) THEN NaN ELSE a + b

FSub(a, b) == IF IsNaN(a) \/ IsNaN(b) THEN NaN ELSE a - b

FMul(a, b) == IF IsNaN(a) \/ IsNaN(b) THEN NaN ELSE a * b

\* arr[i] of a typed array: undefined, hence NaN in arithmetic and in a
\* Float32Array store, for an index that is NaN or outside the array.
ArrRead(arr, i) ==
    IF IsNaN(i) \/ i \notin DOMAIN arr THEN NaN ELSE arr[i]

JsRemNoWrap(a, m) ==
    IF IsNaN(a) \/ m = 0 THEN NaN ELSE a

\* a % m of JavaScript for m >= 0: NaN for m = 0, otherwise the remainder
\* with the sign of a.
JsRem(a, m) ==
    IF IsNaN(a) \/ m = 0 THEN NaN
    ELSE IF a >= 0 THEN a % m ELSE 0 - ((0 - a) % m)

\* frame % animation.frames on a fixed-point frame (numerator over FrameDen).
FrameRem(frameNum, frames) ==
    JsRem(frameNum, frames * FrameDen)

\* Math.floor(frame), a whole number.
Floor(frameNum) ==
    IF IsNaN(frameNum) THEN NaN ELSE frameNum \div FrameDen

\* Math.ceil(frame), a whole number.
Ceil(frameNum) ==
    IF IsNaN(frameNum) THEN NaN ELSE 0 - ((0 - frameNum) \div FrameDen)

\* frame - Math.floor(frame), as a numerator over FrameDen.
Frac(frameNum) ==
    IF IsNaN(frameNum) THEN NaN ELSE frameNum - FrameDen * Floor(frameNum)

\* 1 - s2, as a numerator over FrameDen.
OneMinus(s2) ==
    IF IsNaN(s2) THEN NaN ELSE FrameDen - s2

BlendFirstOnly(s1, a, s2, b) ==
    a

\* s1 * a + s2 * b with the weights s1, s2 numerators over FrameDen; exact,
\* because the keyframe values are multiples of FrameDen.
Blend(s1, a, s2, b) ==
    IF IsNaN(s1) \/ IsNaN(s2) \/ IsNaN(a) \/ IsNaN(b) THEN NaN
    ELSE (s1 * a + s2 * b) \div FrameDen

(***************************************************************************)
(* gl-matrix (external library): the operations the sampler calls          *)
(***************************************************************************)

\* mat4.create(): the identity.
Mat4Identity ==
    [i \in 0 .. 15 |-> IF i \in {0, 5, 10, 15} THEN 1 ELSE 0]

\* mat4.multiply(out, a, b): column-major a * b.
Mat4Multiply(a, b) ==
    [i \in 0 .. 15 |->
        LET r == i % 4
            c == i \div 4
        IN  FAdd(FAdd(FMul(b[4 * c], a[r]), FMul(b[4 * c + 1], a[4 + r])),
                 FAdd(FMul(b[4 * c + 2], a[8 + r]), FMul(b[4 * c + 3], a[12 + r])))]

\* mat4.fromRotationTranslation(out, q, v)
Mat4FromRotationTranslation(q, v) ==
    LET x == q[0]
        y == q[1]
        z == q[2]
        w == q[3]
        x2 == FAdd(x, x)
        y2 == FAdd(y, y)
        z2 == FAdd(z, z)
        xx == FMul(x, x2)
        xy == FMul(x, y2)
        xz == FMul(x, z2)
        yy == FMul(y, y2)
        yz == FMul(y, z2)
        zz == FMul(z, z2)
        wx == FMul(w, x2)
        wy == FMul(w, y2)
        wz == FMul(w, z2)
    IN  [i \in 0 .. 15 |->
            CASE i = 0 -> FSub(1, FAdd(yy, zz))
              [] i = 1 -> FAdd(xy, wz)
              [] i = 2 -> FSub(xz, wy)
              [] i = 4 -> FSub(xy, wz)
              [] i = 5 -> FSub(1, FAdd(xx, zz))
              [] i = 6 -> FAdd(yz, wx)
              [] i = 8 -> FAdd(xz, wy)
              [] i = 9 -> FSub(yz, wx)
              [] i = 10 -> FSub(1, FAdd(xx, yy))
              [] i = 12 -> v[0]
              [] i = 13 -> v[1]
              [] i = 14 -> v[2]
              [] i = 15 -> 1
              [] OTHER -> 0]

\* mat4.scale(out, a, v): the first three columns of a scaled by v.
Mat4Scale(a, v) ==
    [i \in 0 .. 15 |-> IF i < 12 THEN FMul(a[i], v[i \div 4]) ELSE a[i]]

\* quat.slerp(out, a, b, t).  The library's trigonometry is not modelled:
\* the result is taken to be the blend of a and b with weight t, a
\* function of (a, b, t) that is a at t = 0 and depends on both otherwise.
QuatSlerp(a, b, t) ==
    [i \in 0 .. 3 |-> Blend(OneMinus(t), a[i], t, b[i])]

(***************************************************************************)
(* Skeletons, animations and poses                                         *)
(***************************************************************************)

\* The largest skeleton tried.
MaxBones == 2

\* The longest animation tried, in frames.
MaxFrames == 2

\* The frames sampled are frameNum / FrameDen for frameNum in
\* -MaxNegFrameNum .. MaxFrameNum.
MaxFrameNum == 4

MaxNegFrameNum == 1

Vec(a, b, c) == [i \in 0 .. 2 |-> CASE i = 0 -> a [] i = 1 -> b [] OTHER -> c]

Quat(a, b, c, d) ==
    [i \in 0 .. 3 |-> CASE i = 0 -> a [] i = 1 -> b [] i = 2 -> c [] OTHER -> d]

\* A translation matrix, used as an inverse bind matrix.
Mat4Translation(x, y, z) ==
    [i \in 0 .. 15 |->
        CASE i = 12 -> x [] i = 13 -> y [] i = 14 -> z [] OTHER -> Mat4Identity[i]]

\* The bones a skeleton is made of (RMXBone without its parent): a bone at
\* rest at the identity, and two bones with a rest pose of their own, one
\* of them with an inverse bind matrix other than the identity.
BoneTemplates ==
    [k \in 0 .. 2 |->
        CASE k = 0 -> [pos |-> Vec(0, 0, 0), rot |-> Quat(0, 0, 0, 1), scl |-> Vec(1, 1, 1),
                       inv_bind_mat |-> Mat4Identity]
          [] k = 1 -> [pos |-> Vec(1, 2, 3), rot |-> Quat(0, 0, 1, 0), scl |-> Vec(2, 3, 1),
                       inv_bind_mat |-> Mat4Identity]
          [] OTHER -> [pos |-> Vec(3, 0, 1), rot |-> Quat(1, 0, 0, 0), scl |-> Vec(1, 1, 2),
                       inv_bind_mat |-> Mat4Translation(-3, 0, -1)]]

\* RMXSkeleton.bones, indexed from 0; every parent is -1 or an earlier bone
\* (the order the converter emits).  Bone b is made from template
\* (b + first) mod 3, for every choice of the first template.
Skeletons ==
    UNION { { [b \in 0 .. n - 1 |->
                  LET tpl == BoneTemplates[(b + first) % 3] IN
                  [parent |-> par[b], pos |-> tpl.pos, rot |-> tpl.rot,
                   scl |-> tpl.scl, inv_bind_mat |-> tpl.inv_bind_mat]] :
              first \in 0 .. 2,
              par \in { p \in [0 .. n - 1 -> -1 .. n - 1] : \A b \in 0 .. n - 1 : p[b] < b } } :
            n \in 1 .. MaxBones }

\* A component array of a track: null, or a Float32Array.
NullArr == [present |-> FALSE, data |-> <<>>]

Arr(data) == [present |-> TRUE, data |-> data]

\* The keyframes of bone b in a track of the given length, flattened as the
\* loader maps them (count * stride floats); all values are multiples of
\* FrameDen.
PosKeys(b, frames) ==
    [i \in 0 .. 3 * frames - 1 |->
        CASE i % 3 = 0 -> FrameDen * (i \div 3)
          [] i % 3 = 1 -> 0
          [] OTHER -> 2 * FrameDen * b]

RotKeys(b, frames) ==
    [i \in 0 .. 4 * frames - 1 |->
        CASE i % 4 = 3 /\ (i \div 4) % 2 = 0 -> FrameDen
          [] i % 4 = 1 /\ (i \div 4) % 2 = 1 -> FrameDen
          [] OTHER -> 0]

SclKeys(b, frames) ==
    [i \in 0 .. 3 * frames - 1 |->
        CASE i % 3 = 0 -> FrameDen
          [] i % 3 = 1 -> FrameDen * (1 + (i \div 3))
          [] OTHER -> 2 * FrameDen]

\* loadAnimationTrack: null for a null JSON entry, otherwise a track whose
\* component arrays are each null or loaded.
TrackKinds ==
    [k \in 0 .. 3 |->
        CASE k = 0 -> "null" [] k = 1 -> "pos" [] k = 2 -> "rotscl" [] OTHER -> "all"]

Track(kind, b, frames) ==
    [null |-> kind = "null",
     pos |-> IF kind \in {"pos", "all"} THEN Arr(PosKeys(b, frames)) ELSE NullArr,
     rot |-> IF kind \in {"rotscl", "all"} THEN Arr(RotKeys(b, frames)) ELSE NullArr,
     scl |-> IF kind \in {"rotscl", "all"} THEN Arr(SclKeys(b, frames)) ELSE NullArr]

\* RMXAnimation for a skeleton of n bones: frames (0 is the constructor's
\* value) and one track entry per bone, bone b's of kind (b + first) mod 4
\* for every choice of the first kind.
Animations(n) ==
    { [frames |-> f, tracks |-> [b \in 0 .. n - 1 |-> Track(TrackKinds[(b + first) % 4], b, f)]] :
      f \in 0 .. MaxFrames, first \in 0 .. 3 }

FrameNums == (0 - MaxNegFrameNum) .. MaxFrameNum

\* new RMXPose(bones): zeroed arrays and identity world matrices.
NewPose(n) ==
    [pos |-> [i \in 0 .. 3 * n - 1 |-> 0],
     rot |-> [i \in 0 .. 4 * n - 1 |-> 0],
     scl |-> [i \in 0 .. 3 * n - 1 |-> 0],
     world_matrices |-> [b \in 0 .. n - 1 |-> Mat4Identity]]

\* The destination buffer: RMXBoneMatrixTexture.data, 4 * size * size floats.
NewDest(n) ==
    [i \in 0 .. 4 * OptimalSize(n).value * OptimalSize(n).value - 1 |-> 0]

\* RMXSkeletalAnimation.init(): vec3.create(), quat.create(), mat4.create().
NewScratch ==
    [vec1 |-> Vec(0, 0, 0), quat1 |-> Quat(0, 0, 0, 1), quat2 |-> Quat(0, 0, 0, 1),
     mat1 |-> Mat4Identity]

(***************************************************************************)
(* RMXSkeletalAnimation                                                    *)
(***************************************************************************)

NumBones(skel) == Cardinality(DOMAIN skel)

ResetPoseOfKeepsScale(skel, p) ==
    [p EXCEPT
        !.pos = [i \in DOMAIN p.pos |->
                    IF (i \div 3) \in DOMAIN skel THEN skel[i \div 3].pos[i % 3] ELSE p.pos[i]],
        !.rot = [i \in DOMAIN p.rot |->
                    IF (i \div 4) \in DOMAIN skel THEN skel[i \div 4].rot[i % 4] ELSE p.rot[i]]]

\* resetPose(skeleton, pose): the rest values of every bone, written to the
\* pose's pos, rot and scl.
ResetPoseOf(skel, p) ==
    [p EXCEPT
        !.pos = [i \in DOMAIN p.pos |->
                    IF (i \div 3) \in DOMAIN skel THEN skel[i \div 3].pos[i % 3] ELSE p.pos[i]],
        !.rot = [i \in DOMAIN p.rot |->
                    IF (i \div 4) \in DOMAIN skel THEN skel[i \div 4].rot[i % 4] ELSE p.rot[i]],
        !.scl = [i \in DOMAIN p.scl |->
                    IF (i \div 3) \in DOMAIN skel THEN skel[i \div 3].scl[i % 3] ELSE p.scl[i]]]

\* A store dest[base + k] = v[k], k < n, into a typed array (a store outside
\* the array is dropped).
Store(arr, base, n, v) ==
    [i \in DOMAIN arr |-> IF i >= base /\ i < base + n THEN v[i - base] ELSE arr[i]]

\* The keyframe indices and weights sampleAnimation derives from the frame
\* (looped = true): frame = frame % frames, f1 = floor(frame) % frames,
\* f2 = ceil(frame) % frames, s2 = frame - floor(frame), s1 = 1 - s2.
FrameParams(anim, frameNum) ==
    LET frame == FrameRem(frameNum, anim.frames)
        s2 == Frac(frame)
    IN  [f1 |-> JsRem(Floor(frame), anim.frames),
         f2 |-> JsRem(Ceil(frame), anim.frames),
         s1 |-> OneMinus(s2),
         s2 |-> s2]

\* Position and scale of sampleAnimation (linear interpolation): the blend
\* of the two keyframes of the array, or the rest value when the track has
\* no such array.
SampledVec(arr, rest, fp) ==
    [k \in 0 .. 2 |->
        IF arr.present
        THEN Blend(fp.s1, ArrRead(arr.data, FAdd(FMul(fp.f1, 3), k)),
                   fp.s2, ArrRead(arr.data, FAdd(FMul(fp.f2, 3), k)))
        ELSE rest[k]]

\* quat1[k] = track_rot[f14 + k], and the same for quat2 with f24.
TrackQuat(arr, f) ==
    [k \in 0 .. 3 |-> ArrRead(arr.data, FAdd(FMul(f, 4), k))]

\* The body of sampleAnimation's loop for bone b.  st holds the pose and the
\* static scratch as written so far, and whether the call has thrown.
SampleBone(st, anim, skel, b, fp) ==
    LET track == anim.tracks[b]
        bone == skel[b]
        q2 == TrackQuat(track.rot, fp.f2)
        slerped == QuatSlerp(TrackQuat(track.rot, fp.f1), q2, fp.s2)
    IN  IF track.null
        THEN \* track.pos of a null track: a TypeError ends the call here
             [st EXCEPT !.threw = TRUE]
        ELSE [pose |-> [st.pose EXCEPT
                           !.pos = Store(st.pose.pos, 3 * b, 3,
                                         SampledVec(track.pos, bone.pos, fp)),
                           !.rot = Store(st.pose.rot, 4 * b, 4,
                                         IF track.rot.present THEN slerped ELSE bone.rot),
                           !.scl = Store(st.pose.scl, 3 * b, 3,
                                         SampledVec(track.scl, bone.scl, fp))],
              scratch |-> IF track.rot.present
                          THEN [st.scratch EXCEPT !.quat1 = slerped, !.quat2 = q2]
                          ELSE st.scratch,
              threw |-> FALSE]

\* for (var b = 0; b < bone_length; ++b) of sampleAnimation, from bone b on.
RECURSIVE SampleLoop(_, _, _, _, _)
SampleLoop(st, anim, skel, b, fp) ==
    IF b >= NumBones(skel) \/ st.threw THEN st
    ELSE SampleLoop(SampleBone(st, anim, skel, b, fp), anim, skel, b + 1, fp)

\* sampleAnimation(animation, skeleton, pose, frame)
Sample(anim, skel, p, scr, frameNum) ==
    SampleLoop([pose |-> p, scratch |-> scr, threw |-> FALSE],
               anim, skel, 0, FrameParams(anim, frameNum))

ExportBoneStaleParent(st, skel, p, b) ==
    LET bone == skel[b]
        vecPos == [k \in 0 .. 2 |-> p.pos[3 * b + k]]
        quat1 == [k \in 0 .. 3 |-> p.rot[4 * b + k]]
        vecScl == [k \in 0 .. 2 |-> p.scl[3 * b + k]]
        local == Mat4Scale(Mat4FromRotationTranslation(quat1, vecPos), vecScl)
        world == IF bone.parent >= 0
                 THEN Mat4Multiply(p.world_matrices[bone.parent], local)
                 ELSE local
        skin == Mat4Multiply(world, bone.inv_bind_mat)
    IN  [world_matrices |-> [st.world_matrices EXCEPT ![b] = world],
         dest |-> Store(st.dest, 16 * b, 16, skin),
         scratch |-> [st.scratch EXCEPT !.vec1 = vecScl, !.quat1 = quat1, !.mat1 = skin]]

\* The body of exportPose's loop for bone b.  st holds the world matrices,
\* the destination and the static scratch as written so far; p is the pose.
ExportBone(st, skel, p, b) ==
    LET bone == skel[b]
        vecPos == [k \in 0 .. 2 |-> p.pos[3 * b + k]]
        quat1 == [k \in 0 .. 3 |-> p.rot[4 * b + k]]
        vecScl == [k \in 0 .. 2 |-> p.scl[3 * b + k]]
        local == Mat4Scale(Mat4FromRotationTranslation(quat1, vecPos), vecScl)
        world == IF bone.parent >= 0
                 THEN Mat4Multiply(st.world_matrices[bone.parent], local)
                 ELSE local
        skin == Mat4Multiply(world, bone.inv_bind_mat)
    IN  [world_matrices |-> [st.world_matrices EXCEPT ![b] = world],
         dest |-> Store(st.dest, 16 * b, 16, skin),
         scratch |-> [st.scratch EXCEPT !.vec1 = vecScl, !.quat1 = quat1, !.mat1 = skin]]

\* for (var b = 0; b < bone_length; ++b) of exportPose, from bone b on.
RECURSIVE ExportLoop(_, _, _, _)
ExportLoop(st, skel, p, b) ==
    IF b >= NumBones(skel) THEN st
    ELSE ExportLoop(ExportBone(st, skel, p, b), skel, p, b + 1)

\* exportPose(skeleton, pose, dest)
Export(skel, p, d, scr) ==
    ExportLoop([world_matrices |-> p.world_matrices, dest |-> d, scratch |-> scr],
               skel, p, 0)

NoCall == [op |-> "none", frameNum |-> 0, threw |-> FALSE]

SamplerIdle ==
    /\ skeleton = <<>>
    /\ animation = [frames |-> 0, tracks |-> <<>>]
    /\ pose = NewPose(0)
    /\ dest = <<>>
    /\ scratch = NewScratch
    /\ last = NoCall

\* A model is loaded (loadSkeleton, loadAnimation), and the renderer
\* allocates a pose and a bone matrix buffer for it.
SamplerLoaded ==
    /\ skeleton \in Skeletons
    /\ animation \in Animations(NumBones(skeleton))
    /\ pose = NewPose(NumBones(skeleton))
    /\ dest = NewDest(NumBones(skeleton))
    /\ scratch = NewScratch
    /\ last = NoCall

ResetPose ==
    /\ pose' = ResetPoseOf(skeleton, pose)
    /\ last' = [op |-> "reset", frameNum |-> 0, threw |-> FALSE]
    /\ UNCHANGED <<skeleton, animation, dest, scratch, sizeVars, matVars, callVars, convVars>>

SampleAnimation ==
    \E frameNum \in FrameNums :
        LET r == Sample(animation, skeleton, pose, scratch, frameNum) IN
        /\ pose' = r.pose
        /\ scratch' = r.scratch
        /\ last' = [op |-> "sample", frameNum |-> frameNum, threw |-> r.threw]
        /\ UNCHANGED <<skeleton, animation, dest, sizeVars, matVars, callVars, convVars>>

ExportPose ==
    LET r == Export(skeleton, pose, dest, scratch) IN
    /\ pose' = [pose EXCEPT !.world_matrices = r.world_matrices]
    /\ dest' = r.dest
    /\ scratch' = r.scratch
    /\ last' = [op |-> "export", frameNum |-> 0, threw |-> FALSE]
    /\ UNCHANGED <<skeleton, animation, sizeVars, matVars, callVars, convVars>>

(***************************************************************************)
(* RMXSkeletalAnimation, statement by statement                            *)
(*                                                                         *)
(* Each caller makes one call, sampleAnimation or exportPose, on a pose    *)
(* and a destination buffer of its own.  The calls advance one statement   *)
(* at a time in any order.  vec1, quat1, quat2 and mat1 are the static     *)
(* members of the class: there is one of each for all callers.             *)
(***************************************************************************)

\* The number of callers.
NumCallers == 2

\* The largest skeleton the callers share.
MaxCallBones == 1

Callers == 1 .. NumCallers

\* The pose a caller starts from: a fresh pose after resetPose.
StartPose(skel) == ResetPoseOf(skel, NewPose(NumBones(skel)))

IdleCall(skel) ==
    [op |-> "none", pc |-> "idle", b |-> 0, frameNum |-> 0, threw |-> FALSE,
     pose |-> StartPose(skel), dest |-> NewDest(NumBones(skel))]

CallsIdle ==
    calls = <<>>

CallsLoaded ==
    calls = [c \in Callers |-> IdleCall(skeleton)]

\* ++b and the loop test b < bone_length: the first statement of the next
\* bone, or the end of the call.
NextBone(cl, first) ==
    IF cl.b + 1 < NumBones(skeleton)
    THEN [cl EXCEPT !.b = cl.b + 1, !.pc = first]
    ELSE [cl EXCEPT !.pc = "done"]

\* A caller enters sampleAnimation with a frame >= 0.
BeginSample(c) ==
    /\ calls[c].pc = "idle"
    /\ \E frameNum \in 0 .. MaxFrameNum :
           calls' = [calls EXCEPT ![c] = [@ EXCEPT !.op = "sample", !.pc = "s_head",
                                                   !.frameNum = frameNum]]
    /\ UNCHANGED <<sizeVars, matVars, samplerVars, convVars>>

\* Lines 453-473, and 493-509 for a track without rotations: the track is
\* read (a TypeError for a null track), the position is written, and
\* without a rotation array so are the rest rotation and the scale.
SampleHead(c) ==
    LET cl == calls[c]
        track == animation.tracks[cl.b]
        bone == skeleton[cl.b]
        fp == FrameParams(animation, cl.frameNum)
        withPos == [cl EXCEPT !.pose.pos = Store(cl.pose.pos, 3 * cl.b, 3,
                                                 SampledVec(track.pos, bone.pos, fp))]
    IN  /\ cl.pc = "s_head"
        /\ calls' = [calls EXCEPT ![c] =
               IF track.null THEN [cl EXCEPT !.threw = TRUE, !.pc = "done"]
               ELSE IF track.rot.present THEN [withPos EXCEPT !.pc = "s_q1"]
               ELSE NextBone([withPos EXCEPT
                                 !.pose.rot = Store(cl.pose.rot, 4 * cl.b, 4, bone.rot),
                                 !.pose.scl = Store(cl.pose.scl, 3 * cl.b, 3,
                                                    SampledVec(track.scl, bone.scl, fp))],
                             "s_head")]
        /\ UNCHANGED <<sizeVars, matVars, samplerVars, convVars>>

\* Lines 477-480: quat1[k] = track_rot[f14 + k]
SampleLoadQuat1(c) ==
    LET cl == calls[c]
        fp == FrameParams(animation, cl.frameNum)
    IN  /\ cl.pc = "s_q1"
        /\ scratch' = [scratch EXCEPT
               !.quat1 = TrackQuat(animation.tracks[cl.b].rot, fp.f1)]
        /\ calls' = [calls EXCEPT ![c].pc = "s_q2"]
        /\ UNCHANGED <<sizeVars, matVars, skeleton, animation, pose, dest, last, convVars>>

\* Lines 482-485: quat2[k] = track_rot[f24 + k]
SampleLoadQuat2(c) ==
    LET cl == calls[c]
        fp == FrameParams(animation, cl.frameNum)
    IN  /\ cl.pc = "s_q2"
        /\ scratch' = [scratch EXCEPT
               !.quat2 = TrackQuat(animation.tracks[cl.b].rot, fp.f2)]
        /\ calls' = [calls EXCEPT ![c].pc = "s_slerp"]
        /\ UNCHANGED <<sizeVars, matVars, skeleton, animation, pose, dest, last, convVars>>

\* Line 487: quat_slerp(quat1, quat1, quat2, s2)
SampleSlerp(c) ==
    LET cl == calls[c]
        fp == FrameParams(animation, cl.frameNum)
    IN  /\ cl.pc = "s_slerp"
        /\ scratch' = [scratch EXCEPT
               !.quat1 = QuatSlerp(scratch.quat1, scratch.quat2, fp.s2)]
        /\ calls' = [calls EXCEPT ![c].pc = "s_store"]
        /\ UNCHANGED <<sizeVars, matVars, skeleton, animation, pose, dest, last, convVars>>

\* Lines 489-492 and 500-509: dest_rot[b4 + k] = quat1[k], then the scale.
SampleStoreRot(c) ==
    LET cl == calls[c]
        track == animation.tracks[cl.b]
        fp == FrameParams(animation, cl.frameNum)
    IN  /\ cl.pc = "s_store"
        /\ calls' = [calls EXCEPT ![c] =
               NextBone([cl EXCEPT
                            !.pose.rot = Store(cl.pose.rot, 4 * cl.b, 4, scratch.quat1),
                            !.pose.scl = Store(cl.pose.scl, 3 * cl.b, 3,
                                               SampledVec(track.scl, skeleton[cl.b].scl, fp))],
                        "s_head")]
        /\ UNCHANGED <<sizeVars, matVars, samplerVars, convVars>>

\* A caller enters exportPose.
BeginExport(c) ==
    /\ calls[c].pc = "idle"
    /\ calls' = [calls EXCEPT ![c] = [@ EXCEPT !.op = "export", !.pc = "e_vec1"]]
    /\ UNCHANGED <<sizeVars, matVars, samplerVars, convVars>>

\* Line 354: vec3.set(vec1, pos[b * 3 + 0], pos[b * 3 + 1], pos[b * 3 + 2])
ExportSetVec1Pos(c) ==
    LET cl == calls[c] IN
    /\ cl.pc = "e_vec1"
    /\ scratch' = [scratch EXCEPT !.vec1 = [k \in 0 .. 2 |-> cl.pose.pos[3 * cl.b + k]]]
    /\ calls' = [calls EXCEPT ![c].pc = "e_quat1"]
    /\ UNCHANGED <<sizeVars, matVars, skeleton, animation, pose, dest, last, convVars>>

\* Line 355: quat.set(quat1, rot[b * 4 + 0], ...)
ExportSetQuat1(c) ==
    LET cl == calls[c] IN
    /\ cl.pc = "e_quat1"
    /\ scratch' = [scratch EXCEPT !.quat1 = [k \in 0 .. 3 |-> cl.pose.rot[4 * cl.b + k]]]
    /\ calls' = [calls EXCEPT ![c].pc = "e_mat1"]
    /\ UNCHANGED <<sizeVars, matVars, skeleton, animation, pose, dest, last, convVars>>

\* Line 356: mat4.fromRotationTranslation(mat1, quat1, vec1)
ExportLocalMatrix(c) ==
    /\ calls[c].pc = "e_mat1"
    /\ scratch' = [scratch EXCEPT
           !.mat1 = Mat4FromRotationTranslation(scratch.quat1, scratch.vec1)]
    /\ calls' = [calls EXCEPT ![c].pc = "e_vec1s"]
    /\ UNCHANGED <<sizeVars, matVars, skeleton, animation, pose, dest, last, convVars>>

\* Line 357: vec3.set(vec1, scl[b * 3 + 0], scl[b * 3 + 1], scl[b * 3 + 2])
ExportSetVec1Scl(c) ==
    LET cl == calls[c] IN
    /\ cl.pc = "e_vec1s"
    /\ scratch' = [scratch EXCEPT !.vec1 = [k \in 0 .. 2 |-> cl.pose.scl[3 * cl.b + k]]]
    /\ calls' = [calls EXCEPT ![c].pc = "e_scale"]
    /\ UNCHANGED <<sizeVars, matVars, skeleton, animation, pose, dest, last, convVars>>

\* Line 358: mat4.scale(mat1, mat1, vec1)
ExportScale(c) ==
    /\ calls[c].pc = "e_scale"
    /\ scratch' = [scratch EXCEPT !.mat1 = Mat4Scale(scratch.mat1, scratch.vec1)]
    /\ calls' = [calls EXCEPT ![c].pc = "e_world"]
    /\ UNCHANGED <<sizeVars, matVars, skeleton, animation, pose, dest, last, convVars>>

\* Lines 361-365: the world matrix of bone b, from mat1 and the parent's.
ExportWorld(c) ==
    LET cl == calls[c]
        parent == skeleton[cl.b].parent
        world == IF parent >= 0
                 THEN Mat4Multiply(cl.pose.world_matrices[parent], scratch.mat1)
                 ELSE scratch.mat1
    IN  /\ cl.pc = "e_world"
        /\ calls' = [calls EXCEPT ![c] =
               [cl EXCEPT !.pose.world_matrices[cl.b] = world, !.pc = "e_skin"]]
        /\ UNCHANGED <<sizeVars, matVars, samplerVars, convVars>>

\* Line 368: mat4.multiply(mat1, world_matrix, bone.inv_bind_mat)
ExportSkin(c) ==
    LET cl == calls[c] IN
    /\ cl.pc = "e_skin"
    /\ scratch' = [scratch EXCEPT
           !.mat1 = Mat4Multiply(cl.pose.world_matrices[cl.b], skeleton[cl.b].inv_bind_mat)]
    /\ calls' = [calls EXCEPT ![c].pc = "e_dest"]
    /\ UNCHANGED <<sizeVars, matVars, skeleton, animation, pose, dest, last, convVars>>

\* Lines 369-371: dest[b * 16 + i] = mat1[i]
ExportStoreDest(c) ==
    LET cl == calls[c] IN
    /\ cl.pc = "e_dest"
    /\ calls' = [calls EXCEPT ![c] =
           NextBone([cl EXCEPT !.dest = Store(cl.dest, 16 * cl.b, 16, scratch.mat1)],
                    "e_vec1")]
    /\ UNCHANGED <<sizeVars, matVars, samplerVars, convVars>>

(***************************************************************************)
(* COLLADA.Loader.Source                                                   *)
(*                                                                         *)
(* A <source> element is a sequence of children: raw arrays                *)
(* (float_array, int_array) with an optional id, and technique_common      *)
(* elements holding an accessor.  Strings are sequences of characters; an  *)
(* absent attribute is NullStr, or NullInt for an integer attribute.       *)
(***************************************************************************)

\* The most children a <source> element has, and the most <param> children
\* an accessor has.
MaxChildren == 2
MaxParams == 1

\* this.count = null: no number.
NullInt == 0 - 1

\* String(x) of the + operator: null becomes "null".
ToStr(x) == IF x.null THEN <<"n", "u", "l", "l">> ELSE x.s

\* "#" + source.sourceId
HashRef(sourceId) == <<"#">> \o ToStr(sourceId)

ArrayIds == {NullStr, Str(<<"a">>), Str(<<"b">>)}

AccessorSources == {<<"#", "a">>, <<"#", "b">>, <<"a">>, <<"#", "n", "u", "l", "l">>}

ParamNames == {NullStr, Str(<<"X">>)}
ParamSemantics == {NullStr, Str(<<"S">>)}
ParamTypes == {NullStr, Str(<<"float">>)}

ParamNodes == [name : ParamNames, semantic : ParamSemantics, type : ParamTypes]

ParamLists == UNION {[1 .. n -> ParamNodes] : n \in 0 .. MaxParams}

NoAccessor == [source |-> <<>>, count |-> 0, stride |-> NullInt, offset |-> NullInt,
               params |-> <<>>]

Accessors == [source : AccessorSources, count : {0, 2}, stride : {NullInt, 2},
              offset : {NullInt, 1}, params : ParamLists]

ArrayChildren ==
    [nodeName : {"float_array", "int_array"}, id : ArrayIds, accessor : {NoAccessor}]

TechniqueChildren ==
    [nodeName : {"technique_common"}, id : {NullStr}, accessor : Accessors]

SourceElements ==
    UNION {[1 .. n -> ArrayChildren \cup TechniqueChildren] : n \in 0 .. MaxChildren}

\* new COLLADA.Loader.Source()
NewSource ==
    [sourceId |-> NullStr, count |-> NullInt, stride |-> NullInt, offset |-> NullInt,
     data |-> "null", params |-> {}]

\* context.getAttributeAsInt(node, name, defaultValue, required)
AttributeAsInt(value, defaultValue) == IF value = NullInt THEN defaultValue ELSE value

\* source.params[key] = type
PutParam(params, key, type) ==
    {e \in params : e.key # key} \cup {[key |-> key, type |-> type]}

\* Source.parseAccessorParam; st = [source, log, threw]
ParseAccessorParam(st, param) ==
    IF ~param.name.null /\ ~param.type.null
    THEN [st EXCEPT !.source.params = PutParam(@, param.name.s, param.type.s)]
    ELSE IF ~param.semantic.null /\ ~param.type.null
    THEN [st EXCEPT !.source.params = PutParam(@, param.semantic.s, param.type.s)]
    ELSE IF ~param.type.null
    THEN [st EXCEPT !.source.params =
              PutParam(@, <<"unnamed param #", Cardinality(st.source.params)>>,
                       param.type.s)]
    ELSE [st EXCEPT !.log = Append(@, "Warning")]

RECURSIVE ParseAccessorParams(_, _, _)
ParseAccessorParams(st, params, i) ==
    IF i > Len(params) THEN st
    ELSE ParseAccessorParams(ParseAccessorParam(st, params[i]), params, i + 1)

\* Source.parseAccessor: count, stride and offset are stored, a source
\* attribute other than "#" + source.sourceId is written to the log at
\* Error level, and the params are parsed.
ParseAccessor(st, accessor) ==
    LET stored == [st EXCEPT !.source.count = AttributeAsInt(accessor.count, 0),
                             !.source.stride = AttributeAsInt(accessor.stride, 1),
                             !.source.offset = AttributeAsInt(accessor.offset, 0)]
        logged == IF accessor.source # HashRef(st.source.sourceId)
                  THEN [stored EXCEPT !.log = Append(@, "Error")]
                  ELSE stored
    IN  ParseAccessorParams(logged, accessor.params, 1)

\* One case of the switch of Source.parse.
ParseSourceChild(st, child) ==
    IF child.nodeName = "technique_common"
    THEN ParseAccessor(st, child.accessor)
    ELSE [st EXCEPT !.source.sourceId = child.id, !.source.data = child.nodeName]

RECURSIVE ParseSourceChildren(_, _, _)
ParseSourceChildren(st, children, i) ==
    IF i > Len(children) THEN st
    ELSE ParseSourceChildren(ParseSourceChild(st, children[i]), children, i + 1)

\* Source.parse
ParseSourceOf(children) ==
    ParseSourceChildren([source |-> NewSource, log |-> <<>>, threw |-> FALSE],
                        children, 1)

SourceIdle ==
    srcParse = [phase |-> "idle", children |-> <<>>, source |-> NewSource,
                log |-> <<>>, threw |-> FALSE]

\* Source.parse(node, context) on a <source> element.
ParseSource ==
    /\ srcParse.phase = "idle"
    /\ \E children \in SourceElements :
           LET r == ParseSourceOf(children)
           IN  srcParse' = [phase |-> "parsed", children |-> children,
                            source |-> r.source, log |-> r.log, threw |-> r.threw]
    /\ UNCHANGED <<rmxVars, loaderVars, sceneVars>>

(***************************************************************************)
(* COLLADA.Loader.ColladaLoader                                            *)
(*                                                                         *)
(* One loader runs one job.  Document.parse and context.resolveAllLinks    *)
(* either return or throw; what they do is an input of the call.  events   *)
(* is the sequence of callbacks the loader made, log the severities it     *)
(* wrote to the log.                                                       *)
(***************************************************************************)

\* The most readyState 3 notifications of a request, and the length of the
\* longest response.
MaxProgress == 2
MaxBytes == 2

LoaderIdle ==
    loader = <<>>

\* new ColladaLoader(), then onFinished / onProgress set by the caller or not.
NewLoader(onFinished, onProgress) ==
    [onFinished |-> onFinished, onProgress |-> onProgress, call |-> "none",
     readyState |-> 0, done |-> FALSE, faults |-> [parse |-> FALSE, resolve |-> FALSE],
     status |-> 0, contentLength |-> 0, totalBytes |-> 0, loadedBytes |-> 0,
     progressCount |-> 0, parsed |-> FALSE, linksResolved |-> FALSE,
     events |-> <<>>, log |-> <<>>, returned |-> "none", threw |-> FALSE]

LoaderReady ==
    loader \in {NewLoader(f, p) : f \in BOOLEAN, p \in BOOLEAN}

\* _reportError: if (this.onFinished) this.onFinished(id, null)
ReportError(ld) ==
    IF ld.onFinished THEN [ld EXCEPT !.events = Append(@, <<"finished", "null">>)] ELSE ld

\* _reportSuccess: if (this.onFinished) this.onFinished(id, doc)
ReportSuccess(ld) ==
    IF ld.onFinished THEN [ld EXCEPT !.events = Append(@, <<"finished", "doc">>)] ELSE ld

\* _reportProgress: if (this.onProgress) this.onProgress(id, loadedBytes, totalBytes)
ReportProgress(ld) ==
    IF ld.onProgress
    THEN [ld EXCEPT !.events = Append(@, <<"progress", ld.loadedBytes, ld.totalBytes>>)]
    ELSE ld

\* The catch block of _loadFromXML without its "return null".
CatchFallsThrough(ld) ==
    ReportSuccess(ReportError([ld EXCEPT !.log = Append(@, "Exception")]))

\* The catch block of _loadFromXML.
Catch(ld) ==
    [ReportError([ld EXCEPT !.log = Append(@, "Exception")]) EXCEPT !.returned = "null"]

\* _loadFromXML: parseLog is what Document.parse wrote to the log.
LoadFromXMLOf(ld, parseLog, parseThrows, resolveThrows) ==
    LET called == [ld EXCEPT !.call = "xml", !.done = TRUE, !.log = @ \o parseLog,
                             !.faults = [parse |-> parseThrows, resolve |-> resolveThrows]]
    IN  IF parseThrows THEN Catch(called)
        ELSE IF resolveThrows THEN Catch([called EXCEPT !.parsed = TRUE])
        ELSE [ReportSuccess([called EXCEPT !.parsed = TRUE, !.linksResolved = TRUE])
                  EXCEPT !.returned = "doc"]

\* loadFromXML(id, doc)
LoadFromXML ==
    /\ loader.call = "none"
    /\ \E parseLog \in {<<>>, <<"Warning">>, <<"Error">>},
          parseThrows \in BOOLEAN, resolveThrows \in BOOLEAN :
           loader' = LoadFromXMLOf(loader, parseLog, parseThrows, resolveThrows)
    /\ UNCHANGED <<rmxVars, sourceVars, sceneVars>>

\* loadFromURL(id, url): the request is opened (readyState 1, for which the
\* handler does nothing), or, with no XML parser, the error is reported.
LoadFromURLOf(ld, canParse, contentLength) ==
    IF canParse
    THEN [ld EXCEPT !.call = "url", !.readyState = 1, !.contentLength = contentLength,
                    !.returned = "undefined"]
    ELSE [ReportError([ld EXCEPT !.call = "url", !.log = Append(@, "Error")])
              EXCEPT !.done = TRUE, !.returned = "undefined"]

LoadFromURL ==
    /\ loader.call = "none"
    /\ \E canParse \in BOOLEAN, contentLength \in {NaN, 0, MaxBytes} :
           loader' = LoadFromURLOf(loader, canParse, contentLength)
    /\ UNCHANGED <<rmxVars, sourceVars, sceneVars>>

\* req.onreadystatechange, called with the request in readyState rs.
OnReadyStateChangeOf(ld, rs, status, hasXML, parseThrows, loaded) ==
    LET at == [ld EXCEPT !.readyState = rs] IN
    IF rs = 4
    THEN LET final == [at EXCEPT !.done = TRUE, !.status = status]
         IN  IF status = 0 \/ status = 200
             THEN IF hasXML
                  THEN IF parseThrows
                       THEN [final EXCEPT !.faults.parse = TRUE, !.threw = TRUE]
                       ELSE ReportSuccess([final EXCEPT !.parsed = TRUE])
                  ELSE ReportError([final EXCEPT !.log = Append(@, "Error")])
             ELSE final
    ELSE IF rs = 3
    THEN ReportProgress([at EXCEPT
             !.totalBytes = IF ~(IsNaN(ld.totalBytes)) /\ ld.totalBytes > 0
                            THEN ld.totalBytes ELSE ld.contentLength,
             !.loadedBytes = loaded,
             !.progressCount = @ + 1])
    ELSE at

\* A readystatechange event of the request: headers received (2), a part
\* of the response received (3), or the request is over (4).
OnReadyStateChange ==
    /\ loader.call = "url"
    /\ loader.readyState \in 1 .. 3
    /\ \E rs \in 2 .. 4 :
           /\ rs >= loader.readyState
           /\ rs = 2 => loader.readyState = 1
           /\ rs = 3 => loader.progressCount < MaxProgress
           /\ \E status \in {0, 200, 404}, hasXML \in BOOLEAN, parseThrows \in BOOLEAN,
                 loaded \in loader.loadedBytes .. MaxBytes :
                  loader' = OnReadyStateChangeOf(loader, rs, status, hasXML,
                                                 parseThrows, loaded)
    /\ UNCHANGED <<rmxVars, sourceVars, sceneVars>>

(***************************************************************************)
(* COLLADA.Converter.Node: matrices                                        *)
(*                                                                         *)
(* The matrices of the node tree are the Mat4 of the form                  *)
(* diag(s, s, s, 1) with translation (t, 0, 0): a uniform scale and a      *)
(* translation along x.  They are closed under product and inverse and do  *)
(* not commute.  s and t are fixed-point numbers with Unit steps per 1;    *)
(* every scale of the model is a power of two, so products and inverses    *)
(* are exact.  A result that is not a multiple of 1/Unit would be NaN.     *)
(***************************************************************************)

\* log2 of the number of fixed-point steps per 1.
UnitBits == 12

Unit == Pow(2, UnitBits)

Fx(n) == n * Unit

FxMul(a, b) ==
    IF IsNaN(a) \/ IsNaN(b) \/ (a * b) % Unit # 0 THEN NaN ELSE (a * b) \div Unit

FxDiv(a, b) ==
    IF IsNaN(a) \/ IsNaN(b) \/ b = 0 THEN NaN
    ELSE LET neg == (a < 0) # (b < 0)
             n == (IF a < 0 THEN 0 - a ELSE a) * Unit
             d == IF b < 0 THEN 0 - b ELSE b
         IN  IF n % d # 0 THEN NaN ELSE IF neg THEN 0 - (n \div d) ELSE n \div d

\* mat4.identity
NodeMatIdentity == [s |-> Fx(1), t |-> 0]

\* A scale by num/den (den a power of two), and a translation along x.
NodeMatScaling(num, den) == [s |-> Fx(num) \div den, t |-> 0]

NodeMatTranslation(t) == [s |-> Fx(1), t |-> Fx(t)]

\* mat4.multiply(out, a, b): out = a * b
NodeMatMultiply(a, b) ==
    [s |-> FxMul(a.s, b.s), t |-> FAdd(FxMul(a.s, b.t), a.t)]

\* mat4.scale(out, a, v): out = a * scaling(v), v a fixed-point factor
NodeMatScale(a, v) == [s |-> FxMul(a.s, v), t |-> a.t]

\* mat4.invert(out, a): out is left as it is when a is singular
NodeMatInvert(out, a) ==
    IF a.s = 0 THEN out
    ELSE [s |-> FxDiv(Fx(1), a.s), t |-> FSub(0, FxDiv(a.t, a.s))]

(***************************************************************************)
(* COLLADA.Converter.Node: the node tree                                   *)
(*                                                                         *)
(* Nodes are numbered 1 .. n in the order createNode made them, parent 0   *)
(* for a node without parent.  A node's transformations are the matrices   *)
(* its Transform objects apply; animated says whether an animation targets *)
(* one of them.  Geometries are numbered; a geometry records whether it    *)
(* has a skeleton and the matrices transformGeometry applied to it.        *)
(***************************************************************************)

MaxNodes == 3
MaxGeoms == 2

\* The transformation stacks of the nodes of the model.
TransformTemplates ==
    [k \in 0 .. 2 |->
        CASE k = 0 -> <<>>
          [] k = 1 -> <<NodeMatTranslation(1)>>
          [] k = 2 -> <<NodeMatScaling(2, 1), NodeMatTranslation(3)>>]

\* The elements of a set of numbers, in increasing order.
RECURSIVE Ascending(_)
Ascending(S) ==
    IF S = {} THEN <<>>
    ELSE LET m == CHOOSE x \in S : \A y \in S : x <= y
         IN  <<m>> \o Ascending(S \ {m})

\* new COLLADA.Converter.Node(), linked as createNode and createNodeData do.
NewNode(n, parents, owner, animNode, i) ==
    [parent |-> parents[i],
     children |-> Ascending({j \in 1 .. n : parents[j] = i}),
     geometries |-> Ascending({g \in DOMAIN owner : owner[g] = i}),
     transformations |-> TransformTemplates[(i + n) % 3],
     animated |-> (i = animNode),
     transformation_pre |-> NodeMatIdentity,
     transformation_post |-> NodeMatIdentity,
     matrix |-> NodeMatIdentity,
     worldMatrix |-> NodeMatIdentity,
     initialLocalMatrix |-> NodeMatIdentity,
     initialWorldMatrix |-> NodeMatIdentity]

\* transform.applyTransformation(this.matrix) for transformations[i ..]
RECURSIVE ApplyTransformations(_, _, _)
ApplyTransformations(m, transformations, i) ==
    IF i > Len(transformations) THEN m
    ELSE ApplyTransformations(NodeMatMultiply(m, transformations[i]), transformations, i + 1)

\* pre-transform, then the transformations, then the post-transform
LocalMatrixOf(node) ==
    NodeMatMultiply(
        ApplyTransformations(node.transformation_pre, node.transformations, 1),
        node.transformation_post)

\* node.getLocalMatrix(context): the matrix is kept in node.matrix
GetLocalMatrix(nodes, i) ==
    [nodes EXCEPT ![i].matrix = LocalMatrixOf(nodes[i])]

\* node.getWorldMatrix(context): the parent's world matrix is computed
\* first, then the local matrix; both are kept in the nodes.
RECURSIVE GetWorldMatrix(_, _)
GetWorldMatrix(nodes, i) ==
    IF nodes[i].parent # 0
    THEN LET withParent == GetWorldMatrix(nodes, nodes[i].parent)
             withLocal == GetLocalMatrix(withParent, i)
         IN  [withLocal EXCEPT ![i].worldMatrix =
                 NodeMatMultiply(withLocal[nodes[i].parent].worldMatrix, withLocal[i].matrix)]
    ELSE LET withLocal == GetLocalMatrix(nodes, i)
         IN  [withLocal EXCEPT ![i].worldMatrix = withLocal[i].matrix]

\* Node.updateInitialMatrices(node, context)
UpdateInitialMatrices(nodes, i) ==
    LET withLocal == GetLocalMatrix(nodes, i)
        copied == [withLocal EXCEPT ![i].initialLocalMatrix = withLocal[i].matrix]
        withWorld == GetWorldMatrix(copied, i)
    IN  [withWorld EXCEPT ![i].initialWorldMatrix = withWorld[i].worldMatrix]

\* createNode calls updateInitialMatrices on every node it makes, parents
\* before children.
RECURSIVE CreateNodes(_, _)
CreateNodes(nodes, i) ==
    IF i \notin DOMAIN nodes THEN nodes
    ELSE CreateNodes(UpdateInitialMatrices(nodes, i), i + 1)

\* The node trees of the model: n nodes, each with an earlier node as its
\* parent or none; g geometries on nodes, the last of them skinned or none;
\* node 1 animated or none.
Scenes ==
    UNION {
        {[nodes |-> CreateNodes([i \in 1 .. n |-> NewNode(n, parents, owner, animNode, i)], 1),
          roots |-> Ascending({j \in 1 .. n : parents[j] = 0}),
          geoms |-> [k \in 1 .. g |-> [skinned |-> (k = skinnedGeom), baked |-> <<>>]]] :
            parents \in {p \in [1 .. n -> 0 .. n - 1] : \A i \in 1 .. n : p[i] < i},
            owner \in [1 .. g -> 1 .. n],
            animNode \in {0, 1},
            skinnedGeom \in {0, g}} :
        n \in 1 .. MaxNodes, g \in 0 .. MaxGeoms}

\* No converter call was made yet.
NoSceneCall ==
    [op |-> "none", node |-> 0,
     options |-> [createSkeleton |-> [value |-> FALSE], singleGeometry |-> [value |-> FALSE],
                  worldTransformUnitScale |-> [value |-> FALSE]],
     worldScale |-> 1, result |-> <<>>, collected |-> <<>>, log |-> <<>>,
     merges |-> 0, local |-> <<>>]

SceneIdle ==
    scene = <<>>

SceneLoaded ==
    scene \in {[nodes |-> s.nodes, roots |-> s.roots, geoms |-> s.geoms,
                last |-> NoSceneCall] : s \in Scenes}

\* The options of the converter are objects that hold their setting in
\* .value; a condition on the object itself sees an object, which is true.
Options(createSkeleton, singleGeometry, unitScale) ==
    [createSkeleton |-> [value |-> createSkeleton],
     singleGeometry |-> [value |-> singleGeometry],
     worldTransformUnitScale |-> [value |-> unitScale]]

Truthy(option) == TRUE

\* forEachNode with the siblings visited before the children.
RECURSIVE ForEachNodeSiblingsFirst(_, _)
ForEachNodeSiblingsFirst(nodes, list) ==
    IF list = <<>> THEN <<>>
    ELSE <<Head(list)>> \o ForEachNodeSiblingsFirst(nodes, Tail(list))
             \o ForEachNodeSiblingsFirst(nodes, nodes[Head(list)].children)

\* Node.forEachNode(nodes, fn): the nodes in the order fn is called on them.
RECURSIVE ForEachNode(_, _)
ForEachNode(nodes, list) ==
    IF list = <<>> THEN <<>>
    ELSE <<Head(list)>> \o ForEachNode(nodes, nodes[Head(list)].children)
             \o ForEachNode(nodes, Tail(list))

\* Lines 910-912 for the nodes order[k ..]: the {node, geometry} pairs pushed.
RECURSIVE CollectGeometries(_, _, _)
CollectGeometries(nodes, order, k) ==
    IF k > Len(order) THEN <<>>
    ELSE [j \in 1 .. Len(nodes[order[k]].geometries) |->
             [node |-> order[k], geometry |-> nodes[order[k]].geometries[j]]]
         \o CollectGeometries(nodes, order, k + 1)

\* node.isAnimated(recursive)
RECURSIVE IsAnimated(_, _, _)
IsAnimated(nodes, i, recursive) ==
    IF nodes[i].animated THEN TRUE
    ELSE IF recursive /\ nodes[i].parent # 0 THEN IsAnimated(nodes, nodes[i].parent, recursive)
    ELSE FALSE

\* Lines 939-947 for one element, with the matrix handed to transformGeometry
\* taken as the world matrix alone.
BakeElementWorldOnly(st, element, options) ==
    LET withWorld == GetWorldMatrix(st.nodes, element.node)
    IN  [nodes |-> withWorld,
         geoms |-> [st.geoms EXCEPT ![element.geometry].baked =
                       Append(@, withWorld[element.node].worldMatrix)]]

\* Lines 939-947 for one element; st = [nodes, geoms].  world_matrix is the
\* node's own worldMatrix object, which mat4.multiply writes to.
BakeElement(st, element, options) ==
    LET withWorld == GetWorldMatrix(st.nodes, element.node)
        world_matrix ==
            IF Truthy(options.worldTransformUnitScale)
            THEN NodeMatMultiply(withWorld[element.node].worldMatrix,
                     NodeMatInvert(NodeMatIdentity,
                                   withWorld[element.node].transformation_post))
            ELSE withWorld[element.node].worldMatrix
    IN  [nodes |-> [withWorld EXCEPT ![element.node].worldMatrix = world_matrix],
         geoms |-> [st.geoms EXCEPT ![element.geometry].baked = Append(@, world_matrix)]]

RECURSIVE BakeElements(_, _, _, _)
BakeElements(st, result, k, options) ==
    IF k > Len(result) THEN st
    ELSE BakeElements(BakeElement(st, result[k], options), result, k + 1, options)

\* new COLLADA.Converter.Geometry() with no name given.
EmptyGeometryUnnamed == [name |-> "", parts |-> <<>>]

\* Lines 918-919: a new Geometry named "empty_geometry".
EmptyGeometry == [name |-> "empty_geometry", parts |-> <<>>]

\* Node.extractGeometries(scene_nodes, context)
ExtractGeometriesOf(sc, options) ==
    LET order == ForEachNode(sc.nodes, sc.roots)
        result == CollectGeometries(sc.nodes, order, 1)
        detached == [i \in DOMAIN sc.nodes |->
                        IF \E k \in DOMAIN order : order[k] = i
                        THEN [sc.nodes[i] EXCEPT !.geometries = <<>>] ELSE sc.nodes[i]]
        call == [NoSceneCall EXCEPT !.op = "extractGeometries", !.options = options,
                                    !.collected = result]
        skinnedGeometries ==
            Cardinality({k \in DOMAIN result : sc.geoms[result[k].geometry].skinned})
        animatedNodeGeometries ==
            Cardinality({k \in DOMAIN result : IsAnimated(detached, result[k].node, TRUE)})
        warnings ==
            (IF skinnedGeometries > 0 THEN <<"Warning">> ELSE <<>>)
            \o (IF animatedNodeGeometries > 0 THEN <<"Warning">> ELSE <<>>)
        baked == IF ~options.createSkeleton.value
                 THEN BakeElements([nodes |-> detached, geoms |-> sc.geoms], result, 1, options)
                 ELSE [nodes |-> detached, geoms |-> sc.geoms]
        geometries == [k \in DOMAIN result |-> result[k].geometry]
    IN  IF Len(result) = 0
        THEN [sc EXCEPT !.nodes = detached,
                        !.last = [call EXCEPT !.log = <<"Warning">>,
                                      !.result = <<EmptyGeometry>>]]
        ELSE [sc EXCEPT
                 !.nodes = baked.nodes,
                 !.geoms = baked.geoms,
                 !.last = [call EXCEPT
                     !.log = IF ~options.createSkeleton.value THEN warnings ELSE <<>>,
                     !.merges = IF Truthy(options.singleGeometry) THEN 1 ELSE 0,
                     !.result =
                         IF Truthy(options.singleGeometry)
                         THEN <<[name |-> "merged", parts |-> geometries]>>
                         ELSE [k \in DOMAIN geometries |->
                                  [name |-> "geometry", parts |-> <<geometries[k]>>]]]]

\* The world scales of the configuration.
WorldScales == {1, 2}

\* Utils.getWorldTransform(context) and Utils.getWorldInvScale(context): a
\* scaling by the world scale, and the inverse of the world scale.
WorldTransform(worldScale) == NodeMatScaling(worldScale, 1)

WorldInvScale(worldScale) == Fx(1) \div worldScale

\* Lines 971-985 with the pre-transform copied from the parent's
\* post-transform instead of inverted.
SetupNodeNoInvert(nodes, i, unitScale, worldScale) ==
    LET node == nodes[i]
        pre == IF node.parent = 0 THEN WorldTransform(worldScale)
               ELSE IF unitScale THEN nodes[node.parent].transformation_post
               ELSE node.transformation_pre
        post == IF unitScale
                THEN NodeMatScale(NodeMatIdentity, WorldInvScale(worldScale))
                ELSE node.transformation_post
    IN  UpdateInitialMatrices(
            [nodes EXCEPT ![i].transformation_pre = pre, ![i].transformation_post = post], i)

\* Lines 971-985: the pre-transform, the post-transform and the initial
\* matrices of one node.
SetupNode(nodes, i, unitScale, worldScale) ==
    LET node == nodes[i]
        pre == IF node.parent = 0 THEN WorldTransform(worldScale)
               ELSE IF unitScale
               THEN NodeMatInvert(node.transformation_pre,
                                  nodes[node.parent].transformation_post)
               ELSE node.transformation_pre
        post == IF unitScale
                THEN NodeMatScale(NodeMatIdentity, WorldInvScale(worldScale))
                ELSE node.transformation_post
    IN  UpdateInitialMatrices(
            [nodes EXCEPT ![i].transformation_pre = pre, ![i].transformation_post = post], i)

\* Node.setupWorldTransform(node, context), and its loop over the children
\* from children[k] on.
RECURSIVE SetupWorldTransformOf(_, _, _, _)
RECURSIVE SetupChildren(_, _, _, _, _)
SetupWorldTransformOf(nodes, i, unitScale, worldScale) ==
    SetupChildren(SetupNode(nodes, i, unitScale, worldScale), nodes[i].children, 1,
                  unitScale, worldScale)

SetupChildren(nodes, children, k, unitScale, worldScale) ==
    IF k > Len(children) THEN nodes
    ELSE SetupChildren(SetupWorldTransformOf(nodes, children[k], unitScale, worldScale),
                       children, k + 1, unitScale, worldScale)

\* Node.setupWorldTransform(root, context) on a root of the scene.
SetupWorldTransform ==
    /\ \E k \in DOMAIN scene.roots, unitScale \in BOOLEAN, worldScale \in WorldScales :
           scene' = [scene EXCEPT
               !.nodes = SetupWorldTransformOf(scene.nodes, scene.roots[k], unitScale,
                                               worldScale),
               !.last = [NoSceneCall EXCEPT
                            !.op = "setupWorldTransform", !.node = scene.roots[k],
                            !.options = Options(FALSE, FALSE, unitScale),
                            !.worldScale = worldScale]]
    /\ UNCHANGED <<rmxVars, sourceVars, loaderVars>>

\* value.containsSceneGraphItems()
ContainsSceneGraphItems(node) == Len(node.geometries) > 0

\* Node.pruneNodes(nodes, context): the children lists are pruned first;
\* the filtered list is assigned to the parameter nodes, a variable of the
\* call.  The result is the node tree and that variable.
RECURSIVE PruneNodesOf(_, _)
RECURSIVE PruneChildren(_, _, _)
PruneNodesOf(nodes, list) ==
    LET pruned == PruneChildren(nodes, list, 1)
    IN  [nodes |-> pruned,
         local |-> SelectSeq(list, LAMBDA i :
                      ContainsSceneGraphItems(pruned[i]) \/ Len(pruned[i].children) > 0)]

PruneChildren(nodes, list, n) ==
    IF n > Len(list) THEN nodes
    ELSE PruneChildren(PruneNodesOf(nodes, nodes[list[n]].children).nodes, list, n + 1)

\* Node.pruneNodes(scene_nodes, context): the caller's list is scene.roots.
PruneNodes ==
    /\ LET r == PruneNodesOf(scene.nodes, scene.roots)
       IN  scene' = [scene EXCEPT
               !.nodes = r.nodes,
               !.last = [NoSceneCall EXCEPT !.op = "pruneNodes", !.local = r.local]]
    /\ UNCHANGED <<rmxVars, sourceVars, loaderVars>>

\* Node.extractGeometries(scene_nodes, context) on the roots of the scene;
\* the unit-scale option of the context is the one of the call before.
ExtractGeometries ==
    /\ \E createSkeleton \in BOOLEAN, singleGeometry \in BOOLEAN :
           scene' = ExtractGeometriesOf(scene,
                        Options(createSkeleton, singleGeometry,
                                scene.last.options.worldTransformUnitScale.value))
    /\ UNCHANGED <<rmxVars, sourceVars, loaderVars>>

ConvIdle ==
    /\ SourceIdle
    /\ LoaderIdle
    /\ SceneIdle

(***************************************************************************)
(* Specifications                                                          *)
(***************************************************************************)

InitSize ==
    /\ SizeIdle
    /\ MatIdle
    /\ SamplerIdle
    /\ CallsIdle
    /\ ConvIdle

NextSize ==
    CallOptimalSize

SpecSize ==
    InitSize /\ [][NextSize]_vars

InitMaterial ==
    /\ SizeIdle
    /\ MatIdle
    /\ SamplerIdle
    /\ CallsIdle
    /\ ConvIdle

NextMaterial ==
    LoadMaterial

SpecMaterial ==
    InitMaterial /\ [][NextMaterial]_vars

InitSampler ==
    /\ SizeIdle
    /\ MatIdle
    /\ SamplerLoaded
    /\ CallsIdle
    /\ ConvIdle

NextSampler ==
    \/ ResetPose
    \/ SampleAnimation
    \/ ExportPose

SpecSampler ==
    InitSampler /\ [][NextSampler]_vars

InitInterleaved ==
    /\ SizeIdle
    /\ MatIdle
    /\ SamplerLoaded
    /\ NumBones(skeleton) <= MaxCallBones
    /\ CallsLoaded
    /\ ConvIdle

NextInterleaved ==
    \E c \in Callers :
        \/ BeginSample(c)
        \/ SampleHead(c)
        \/ SampleLoadQuat1(c)
        \/ SampleLoadQuat2(c)
        \/ SampleSlerp(c)
        \/ SampleStoreRot(c)
        \/ BeginExport(c)
        \/ ExportSetVec1Pos(c)
        \/ ExportSetQuat1(c)
        \/ ExportLocalMatrix(c)
        \/ ExportSetVec1Scl(c)
        \/ ExportScale(c)
        \/ ExportWorld(c)
        \/ ExportSkin(c)
        \/ ExportStoreDest(c)

SpecInterleaved ==
    InitInterleaved /\ [][NextInterleaved]_vars

RmxIdle ==
    /\ SizeIdle
    /\ MatIdle
    /\ SamplerIdle
    /\ CallsIdle

InitSource ==
    /\ RmxIdle
    /\ SourceIdle
    /\ LoaderIdle
    /\ SceneIdle

NextSource ==
    ParseSource

SpecSource ==
    InitSource /\ [][NextSource]_vars

InitLoader ==
    /\ RmxIdle
    /\ SourceIdle
    /\ LoaderReady
    /\ SceneIdle

NextLoader ==
    \/ LoadFromXML
    \/ LoadFromURL
    \/ OnReadyStateChange

SpecLoader ==
    InitLoader /\ [][NextLoader]_vars

InitScene ==
    /\ RmxIdle
    /\ SourceIdle
    /\ LoaderIdle
    /\ SceneLoaded

NextScene ==
    \/ SetupWorldTransform
    \/ PruneNodes
    \/ ExtractGeometries

SpecScene ==
    InitScene /\ [][NextScene]_vars

(***************************************************************************)
(* Claims about RMXBoneMatrixTexture.optimalSize                           *)
(***************************************************************************)

RECURSIVE IsPow2(_)
IsPow2(n) ==
    IF n <= 1 THEN n = 1
    ELSE n % 2 = 0 /\ IsPow2(n \div 2)

\* The power-of-two widths a texture may have, 2 .. 2048.
AllowedSizes ==
    { s \in 2 .. 2048 : IsPow2(s) }

\* C1: whenever optimalSize returns, the result is the smallest power of two
\* >= 2 whose capacity size*size/4 is at least the bone count, it is never
\* larger than 2048, it is monotonic non-decreasing in the bone count, and
\* the call raises an error exactly when no power-of-two width <= 2048 has
\* enough capacity.
C1_OptimalSizeSmallest ==
    sizeCall.called =>
        LET b == sizeCall.bones
            r == sizeCall.value
        IN  /\ sizeCall.threw <=> (\A s \in AllowedSizes : s * s < 4 * b)
            /\ ~sizeCall.threw =>
                /\ r \in AllowedSizes
                /\ r * r >= 4 * b
                /\ \A s \in AllowedSizes : s * s >= 4 * b => r <= s
                /\ \A b2 \in BoneCounts :
                       b2 <= b => /\ ~OptimalSize(b2).threw
                                  /\ OptimalSize(b2).value <= r

\* C1 witness: a call that had to double at least twice has returned.
C1_Witness ==
    /\ sizeCall.called
    /\ ~sizeCall.threw
    /\ sizeCall.value >= 8

\* C2 as stated: optimalSize(100000) raises a capacity error.
C2_Original ==
    (sizeCall.called /\ sizeCall.bones = 100000) => sizeCall.threw

\* C2 amended: optimalSize(100000) returns 1024 (capacity 262144) and raises
\* nothing; the capacity error is raised exactly for the bone counts above
\* capacity(2048) = 1048576.
C2_Amended ==
    sizeCall.called =>
        /\ sizeCall.bones = 100000 => (~sizeCall.threw /\ sizeCall.value = 1024)
        /\ sizeCall.threw <=> sizeCall.bones > 1048576

\* C2 witnesses: the call with 100000 bones has been made, and so has one that raised.
C2_Witness ==
    /\ sizeCall.called
    /\ sizeCall.bones = 100000

(***************************************************************************)
(* Claims about RMXSkeletalAnimation                                       *)
(***************************************************************************)

\* The bones a sampleAnimation call gets to: all of them, or the ones
\* before the first null track entry, where the call ends with a TypeError.
SampledBones ==
    { b \in DOMAIN skeleton : \A c \in 0 .. b : ~animation.tracks[c].null }

\* The value claimed for component k of bone b: (1-s)*track[f1] + s*track[f2]
\* with f1 = floor(frame) mod frameCount, f2 = ceil(frame) mod frameCount
\* and s = frame - floor(frame), for a frame >= 0 given as frameNum / FrameDen.
ClaimedLerp(data, frameNum, k) ==
    LET f1 == (frameNum \div FrameDen) % animation.frames
        f2 == ((frameNum + FrameDen - 1) \div FrameDen) % animation.frames
        s == frameNum % FrameDen
    IN  ((FrameDen - s) * data[3 * f1 + k] + s * data[3 * f2 + k]) \div FrameDen

\* C3: after sampleAnimation at a frame >= 0 of an animation with at least
\* one frame, every bone the call sampled has, for position and for scale,
\* the componentwise blend (1-s)*track[f1] + s*track[f2] if its track has
\* that array and its rest value otherwise; at a whole frame f that is
\* keyframe f itself, and the 2-frame track (0,0,0) -> (2,0,0) sampled at
\* frame 0.5 gives (1,0,0).
C3_LerpOrRest ==
    (last.op = "sample" /\ animation.frames >= 1 /\ last.frameNum >= 0) =>
        \A b \in SampledBones :
            LET track == animation.tracks[b]
                f == (last.frameNum \div FrameDen) % animation.frames
            IN  \A k \in 0 .. 2 :
                /\ track.pos.present =>
                       pose.pos[3 * b + k] = ClaimedLerp(track.pos.data, last.frameNum, k)
                /\ track.scl.present =>
                       pose.scl[3 * b + k] = ClaimedLerp(track.scl.data, last.frameNum, k)
                /\ ~track.pos.present => pose.pos[3 * b + k] = skeleton[b].pos[k]
                /\ ~track.scl.present => pose.scl[3 * b + k] = skeleton[b].scl[k]
                /\ (last.frameNum % FrameDen = 0 /\ track.pos.present) =>
                       pose.pos[3 * b + k] = track.pos.data[3 * f + k]
                /\ (last.frameNum % FrameDen = 0 /\ track.scl.present) =>
                       pose.scl[3 * b + k] = track.scl.data[3 * f + k]
                /\ ( /\ 2 * last.frameNum = FrameDen
                     /\ animation.frames = 2
                     /\ track.pos.present
                     /\ \A i \in 0 .. 5 : track.pos.data[i] = (IF i = 3 THEN 2 ELSE 0) ) =>
                       pose.pos[3 * b + k] = (IF k = 0 THEN 1 ELSE 0)

\* C3 witness: the 2-frame track (0,0,0) -> (2,0,0) of bone 0 has been
\* sampled at frame 0.5, next to a bone whose track has no position array.
C3_Witness ==
    /\ last.op = "sample"
    /\ ~last.threw
    /\ animation.frames = 2
    /\ 2 * last.frameNum = FrameDen
    /\ animation.tracks[0].pos.present
    /\ animation.tracks[0].pos.data[3] = 2
    /\ pose.pos[0] = 1
    /\ \E b \in DOMAIN skeleton : ~animation.tracks[b].pos.present

\* C4: sampling loops.  For an animation with frameCount >= 1, a call of
\* sampleAnimation at a frame >= 0 leaves the pose (pos, rot, scl of every
\* bone) and ends (returns or throws) exactly as the call at
\* frame + frameCount would have; in particular the call at frame 0 does
\* what the call at frameCount does.
C4_Looping ==
    [][ (last'.op = "sample" /\ animation.frames >= 1 /\ last'.frameNum >= 0) =>
            LET r == Sample(animation, skeleton, pose, scratch,
                            last'.frameNum + animation.frames * FrameDen)
            IN  /\ pose' = r.pose
                /\ last'.threw = r.threw ]_vars

\* C4 witness: a call at frame 0 has sampled keyframes into the pose.
C4_Witness ==
    /\ last.op = "sample"
    /\ last.frameNum = 0
    /\ animation.frames = 2
    /\ ~last.threw
    /\ \A b \in DOMAIN skeleton :
           animation.tracks[b].pos.present /\ animation.tracks[b].rot.present

\* C5 as stated: with a null track entry for a bone, sampleAnimation
\* completes normally, that bone has its rest position, rotation and scale,
\* and the other bones are sampled.
C5_NullTrackRest ==
    (last.op = "sample" /\ animation.frames >= 1 /\ last.frameNum >= 0) =>
        /\ ~last.threw
        /\ \A b \in DOMAIN skeleton :
               animation.tracks[b].null =>
                   /\ \A k \in 0 .. 2 : pose.pos[3 * b + k] = skeleton[b].pos[k]
                   /\ \A k \in 0 .. 3 : pose.rot[4 * b + k] = skeleton[b].rot[k]
                   /\ \A k \in 0 .. 2 : pose.scl[3 * b + k] = skeleton[b].scl[k]

\* C6 as stated: a call of sampleAnimation on an animation of 0 frames
\* fails with an error and leaves the pose as it was.
C6_ZeroFramesRejected ==
    [][ (last'.op = "sample" /\ animation.frames = 0) =>
            (last'.threw /\ pose' = pose) ]_vars

\* The local matrix exportPose builds for bone b from the pose p.
LocalMatrix(p, b) ==
    Mat4Scale(Mat4FromRotationTranslation([k \in 0 .. 3 |-> p.rot[4 * b + k]],
                                          [k \in 0 .. 2 |-> p.pos[3 * b + k]]),
              [k \in 0 .. 2 |-> p.scl[3 * b + k]])

\* world(b) = world(parent(b)) * local(b), and local(b) for a root.
RECURSIVE WorldMatrix(_, _, _)
WorldMatrix(skel, p, b) ==
    IF skel[b].parent < 0 THEN LocalMatrix(p, b)
    ELSE Mat4Multiply(WorldMatrix(skel, p, skel[b].parent), LocalMatrix(p, b))

\* C7: after exportPose, every bone's world matrix is its parent's world
\* matrix of this call times its local matrix (the local matrix for a root),
\* dest[16*b .. 16*b+15] holds world(b) * inv_bind_mat(b), and no index of
\* dest from 16*boneCount on has ever been written.
C7_ExportPose ==
    /\ \A i \in DOMAIN dest : i >= 16 * NumBones(skeleton) => dest[i] = 0
    /\ last.op = "export" =>
           \A b \in DOMAIN skeleton :
               /\ pose.world_matrices[b] = WorldMatrix(skeleton, pose, b)
               /\ \A i \in 0 .. 15 :
                      dest[16 * b + i] =
                          Mat4Multiply(WorldMatrix(skeleton, pose, b),
                                       skeleton[b].inv_bind_mat)[i]

\* C7 witness: a child bone has been exported under a parent that is not at
\* the identity, after the pose has changed since an earlier export.
C7_Witness ==
    /\ last.op = "export"
    /\ \E b \in DOMAIN skeleton :
           /\ skeleton[b].parent >= 0
           /\ pose.world_matrices[skeleton[b].parent] # Mat4Identity
           /\ skeleton[b].inv_bind_mat # Mat4Identity
           /\ dest[16 * b + 12] # 0
    /\ \E b \in DOMAIN skeleton : \E k \in 0 .. 2 : pose.pos[3 * b + k] # skeleton[b].pos[k]

\* The rest local matrix of bone b and the composition along its parent chain.
RestLocal(skel, b) ==
    Mat4Scale(Mat4FromRotationTranslation(skel[b].rot, skel[b].pos), skel[b].scl)

RECURSIVE RestWorld(_, _)
RestWorld(skel, b) ==
    IF skel[b].parent < 0 THEN RestLocal(skel, b)
    ELSE Mat4Multiply(RestWorld(skel, skel[b].parent), RestLocal(skel, b))

\* C8: resetPose sets position, rotation and scale of every bone to the
\* bone's rest values whatever the pose held, and changes nothing else
\* (skeleton, world matrices, destination); an exportPose right after it,
\* on a skeleton whose inverse bind matrices are all the identity, writes
\* for every bone the composition of the rest local matrices along its
\* parent chain.
C8_ResetPose ==
    [][ /\ last'.op = "reset" =>
            /\ \A b \in DOMAIN skeleton :
                   /\ \A k \in 0 .. 2 : pose'.pos[3 * b + k] = skeleton[b].pos[k]
                   /\ \A k \in 0 .. 3 : pose'.rot[4 * b + k] = skeleton[b].rot[k]
                   /\ \A k \in 0 .. 2 : pose'.scl[3 * b + k] = skeleton[b].scl[k]
            /\ pose'.world_matrices = pose.world_matrices
            /\ skeleton' = skeleton
            /\ dest' = dest
        /\ ( /\ last.op = "reset"
             /\ last'.op = "export"
             /\ \A b \in DOMAIN skeleton : skeleton[b].inv_bind_mat = Mat4Identity ) =>
            \A b \in DOMAIN skeleton :
                /\ pose'.world_matrices[b] = RestWorld(skeleton, b)
                /\ \A i \in 0 .. 15 : dest'[16 * b + i] = RestWorld(skeleton, b)[i] ]_vars

\* C8 witness: a pose that held sampled keyframes has been reset and then
\* exported on a two-bone chain with identity inverse bind matrices.
C8_Witness ==
    /\ last.op = "export"
    /\ NumBones(skeleton) = 2
    /\ skeleton[1].parent = 0
    /\ \A b \in DOMAIN skeleton : skeleton[b].inv_bind_mat = Mat4Identity
    /\ \A b \in DOMAIN skeleton : \A k \in 0 .. 2 :
           /\ pose.pos[3 * b + k] = skeleton[b].pos[k]
           /\ pose.scl[3 * b + k] = skeleton[b].scl[k]
    /\ dest[16 + 12] # 0
    /\ scratch.quat2 # NewScratch.quat2

\* What the call of caller c produces when no other call runs: the whole
\* call, applied to the caller's start pose and destination.
AloneResult(cl) ==
    IF cl.op = "sample"
    THEN LET r == Sample(animation, skeleton, StartPose(skeleton), NewScratch, cl.frameNum)
         IN  [pose |-> r.pose, dest |-> NewDest(NumBones(skeleton)), threw |-> r.threw]
    ELSE LET r == Export(skeleton, StartPose(skeleton), NewDest(NumBones(skeleton)),
                         NewScratch)
         IN  [pose |-> [StartPose(skeleton) EXCEPT !.world_matrices = r.world_matrices],
              dest |-> r.dest, threw |-> FALSE]

\* A call that runs with no statement of another call in between produces
\* what the whole call produces.
SerialCallsAgree ==
    \A c \in Callers :
        (calls[c].pc = "done" /\ \A o \in Callers \ {c} : calls[o].pc = "idle") =>
            /\ calls[c].pose = AloneResult(calls[c]).pose
            /\ calls[c].dest = AloneResult(calls[c]).dest
            /\ calls[c].threw = AloneResult(calls[c]).threw

\* C9 as stated: two sampler calls that run interleaved, each on its own
\* pose and destination, each produce exactly what they produce alone.
C9_InterleavedIsolated ==
    \A c \in Callers :
        calls[c].pc = "done" =>
            /\ calls[c].pose = AloneResult(calls[c]).pose
            /\ calls[c].dest = AloneResult(calls[c]).dest
            /\ calls[c].threw = AloneResult(calls[c]).threw

(***************************************************************************)
(* Claims about RMXMaterial.hash                                           *)
(***************************************************************************)

\* C10 as stated: two materials have the same hash if and only if their
\* (diffuse, specular, normal) triples are equal, null and the empty string
\* counting as different values and the separator as an ordinary character.
C10_HashIdentity ==
    \A i \in 1 .. Len(materials), j \in 1 .. Len(materials) :
        (Hash(materials[i]) = Hash(materials[j])) <=> (materials[i] = materials[j])

(***************************************************************************)
(* Claims about COLLADA.Loader.Source                                      *)
(***************************************************************************)

\* The accessors of the parsed element whose source attribute is not "#"
\* followed by the id of the element's raw array.
NonLocalAccessor ==
    \E i \in DOMAIN srcParse.children :
        /\ srcParse.children[i].nodeName = "technique_common"
        /\ \E j \in DOMAIN srcParse.children :
               /\ srcParse.children[j].nodeName # "technique_common"
               /\ ~srcParse.children[j].id.null
               /\ srcParse.children[i].accessor.source
                      # <<"#">> \o srcParse.children[j].id.s

\* C11 as stated: parsing a <source> whose accessor names another array
\* than its sibling raw array fails with an error that aborts the parse,
\* and no Source with count, stride, offset and params of that accessor
\* is produced.
C11_NonLocalSourceAborts ==
    (srcParse.phase = "parsed" /\ NonLocalAccessor) =>
        /\ srcParse.threw
        /\ srcParse.source.count = NullInt
        /\ srcParse.source.params = {}

(***************************************************************************)
(* Claims about COLLADA.Loader.ColladaLoader                               *)
(***************************************************************************)

\* The onFinished callbacks made so far, and the Exception log entries.
FinishedEvents == SelectSeq(loader.events, LAMBDA ev : ev[1] = "finished")

ExceptionEntries == SelectSeq(loader.log, LAMBDA level : level = "Exception")

\* C12: loadFromXML whose parse or link resolution throws writes exactly
\* one Exception log entry, calls onFinished (if set) exactly once with
\* null, returns null and lets no exception out; when neither throws it
\* calls onFinished exactly once with the document and returns it.
C12_LoadFromXML ==
    loader.call = "xml" =>
        /\ ~loader.threw
        /\ (loader.faults.parse \/ loader.faults.resolve) =>
               /\ Len(ExceptionEntries) = 1
               /\ loader.returned = "null"
               /\ FinishedEvents =
                      IF loader.onFinished THEN <<(<<"finished", "null">>)>> ELSE <<>>
        /\ ~(loader.faults.parse \/ loader.faults.resolve) =>
               /\ loader.returned = "doc"
               /\ FinishedEvents =
                      IF loader.onFinished THEN <<(<<"finished", "doc">>)>> ELSE <<>>

\* loadFromXML ended in the catch block, after a parse that succeeded, and
\* told onFinished so.
C12_Witness ==
    /\ loader.call = "xml"
    /\ loader.faults.resolve
    /\ loader.parsed
    /\ loader.log = <<"Warning", "Exception">>
    /\ loader.events = <<(<<"finished", "null">>)>>
    /\ loader.returned = "null"

\* C19 as stated: once the request of loadFromURL has reached its final
\* ready state, onFinished (when set) has been called exactly once, with
\* the document or with null, and no progress notification follows it.
C19_UrlJobReportsOnce ==
    (loader.call = "url" /\ loader.done /\ loader.onFinished) =>
        /\ Len(FinishedEvents) = 1
        /\ loader.events[Len(loader.events)][1] = "finished"

\* C20 as stated: a document is returned or handed to onFinished only
\* after resolveAllLinks has run on its context, and resolveAllLinks runs
\* only after Document.parse has completed.
C20_TwoPhase ==
    /\ loader.linksResolved => loader.parsed
    /\ (loader.returned = "doc"
            \/ \E i \in DOMAIN loader.events : loader.events[i] = <<"finished", "doc">>)
           => loader.linksResolved

(***************************************************************************)
(* Claims about COLLADA.Converter.Node                                     *)
(***************************************************************************)

\* The step is a call of extractGeometries.
ExtractStep == scene'.last.op = "extractGeometries"

\* C13: extractGeometries on a tree none of whose nodes has a geometry
\* returns exactly the one geometry named "empty_geometry", logs no error,
\* transforms no geometry and merges nothing, whatever createSkeleton and
\* singleGeometry are.
C13_EmptyScene ==
    [][(ExtractStep /\ \A i \in DOMAIN scene.nodes : scene.nodes[i].geometries = <<>>) =>
          /\ scene'.last.result = <<[name |-> "empty_geometry", parts |-> <<>>]>>
          /\ scene'.last.merges = 0
          /\ scene'.geoms = scene.geoms
          /\ \A k \in DOMAIN scene'.last.log : scene'.last.log[k] = "Warning"]_vars

\* extractGeometries returned the placeholder although merging was asked
\* for and skeleton creation was off.
C13_Witness ==
    /\ scene.last.op = "extractGeometries"
    /\ scene.last.collected = <<>>
    /\ scene.last.options.singleGeometry.value
    /\ ~scene.last.options.createSkeleton.value
    /\ Len(scene.last.result) = 1
    /\ scene.last.result[1].name = "empty_geometry"

\* C14 as stated: with the singleGeometry option off and at least one
\* geometry in the scene, extractGeometries returns the geometries
\* unmerged, one entry per geometry that was attached to a node.
C14_NoMergeWhenOff ==
    (/\ scene.last.op = "extractGeometries"
     /\ ~scene.last.options.singleGeometry.value
     /\ scene.last.collected # <<>>) =>
        /\ Len(scene.last.result) = Len(scene.last.collected)
        /\ \A k \in DOMAIN scene.last.result :
               scene.last.result[k] =
                   [name |-> "geometry", parts |-> <<scene.last.collected[k].geometry>>]

\* The product m[k] * m[k+1] * ... of a sequence of matrices.
RECURSIVE ProductFrom(_, _)
ProductFrom(m, k) ==
    IF k > Len(m) THEN NodeMatIdentity ELSE NodeMatMultiply(m[k], ProductFrom(m, k + 1))

\* pre_transform * (transform ops) * post_transform, and parent.world * local
ChainLocal(node) ==
    NodeMatMultiply(node.transformation_pre,
        NodeMatMultiply(ProductFrom(node.transformations, 1), node.transformation_post))

RECURSIVE ChainWorld(_, _)
ChainWorld(nodes, i) ==
    IF nodes[i].parent = 0 THEN ChainLocal(nodes[i])
    ELSE NodeMatMultiply(ChainWorld(nodes, nodes[i].parent), ChainLocal(nodes[i]))

\* The nodes geometry g is attached to, and the node and its ancestors.
OwnersOf(nodes, g) ==
    {i \in DOMAIN nodes : \E k \in DOMAIN nodes[i].geometries : nodes[i].geometries[k] = g}

RECURSIVE AncestorsOrSelf(_, _)
AncestorsOrSelf(nodes, i) ==
    IF nodes[i].parent = 0 THEN {i} ELSE {i} \cup AncestorsOrSelf(nodes, nodes[i].parent)

Attached(nodes) == {g \in DOMAIN scene.geoms : OwnersOf(nodes, g) # {}}

\* The warnings an extractGeometries call without skeleton owes.
OwedWarnings ==
    (IF \E g \in Attached(scene.nodes) : scene.geoms[g].skinned THEN 1 ELSE 0)
    + (IF \E g \in Attached(scene.nodes) : \E i \in OwnersOf(scene.nodes, g) :
              \E a \in AncestorsOrSelf(scene.nodes, i) : scene.nodes[a].animated
       THEN 1 ELSE 0)

\* An extractGeometries step on a scene with geometry: without skeleton
\* every attached geometry gets exactly one more matrix, one that
\* Expected(i, m) accepts for its owner i, and the warnings are logged;
\* with skeleton nothing is transformed and nothing logged.
BakeStep(Expected(_, _)) ==
    (ExtractStep /\ Attached(scene.nodes) # {}) =>
        IF ~scene'.last.options.createSkeleton.value
        THEN /\ \A g \in DOMAIN scene.geoms :
                    IF g \in Attached(scene.nodes)
                    THEN /\ Len(scene'.geoms[g].baked) = Len(scene.geoms[g].baked) + 1
                         /\ SubSeq(scene'.geoms[g].baked, 1, Len(scene.geoms[g].baked))
                                = scene.geoms[g].baked
                         /\ \A i \in OwnersOf(scene.nodes, g) :
                                Expected(i, scene'.geoms[g].baked[Len(scene'.geoms[g].baked)])
                    ELSE scene'.geoms[g] = scene.geoms[g]
             /\ Len(scene'.last.log) = OwedWarnings
             /\ \A k \in DOMAIN scene'.last.log : scene'.last.log[k] = "Warning"
        ELSE /\ scene'.geoms = scene.geoms
             /\ scene'.last.log = <<>>

\* C15 as stated: without skeleton every extracted geometry is baked
\* exactly once with its owning node's world matrix (parent.world * local)
\* and the warnings are logged; with skeleton nothing is transformed and
\* neither warning is logged.
C15_Original ==
    [][BakeStep(LAMBDA i, m : m = ChainWorld(scene.nodes, i))]_vars

\* C15 amended: the matrix a geometry is baked with is its owning node's
\* world matrix times the inverse of that node's post-transform, that is,
\* the matrix m with m * post = parent.world * local.
C15_Amended ==
    [][BakeStep(LAMBDA i, m :
           NodeMatMultiply(m, scene.nodes[i].transformation_post)
               = ChainWorld(scene.nodes, i))]_vars

\* A skinned geometry on a node with a post-transform other than the
\* identity was baked, with a matrix that is not the node's world matrix.
C15_Witness ==
    /\ scene.last.op = "extractGeometries"
    /\ ~scene.last.options.createSkeleton.value
    /\ \E k \in DOMAIN scene.last.collected :
           LET el == scene.last.collected[k] IN
           /\ scene.nodes[el.node].transformation_post # NodeMatIdentity
           /\ scene.nodes[el.node].parent # 0
           /\ scene.geoms[el.geometry].skinned
           /\ Len(scene.geoms[el.geometry].baked) = 1
           /\ scene.geoms[el.geometry].baked[1] # ChainWorld(scene.nodes, el.node)
           /\ scene.last.log # <<>>

\* The position of a node in the document: the sibling indices on the way
\* from the list of roots down to the node.
RECURSIVE DocPath(_, _, _)
DocPath(nodes, roots, i) ==
    LET siblings == IF nodes[i].parent = 0 THEN roots ELSE nodes[nodes[i].parent].children
        at == CHOOSE k \in DOMAIN siblings : siblings[k] = i
    IN  IF nodes[i].parent = 0 THEN <<at>>
        ELSE Append(DocPath(nodes, roots, nodes[i].parent), at)

\* Path p comes before path q in document order: p is a proper prefix of
\* q (a parent before its children), or p is smaller where they first differ.
DocBefore(p, q) ==
    \/ Len(p) < Len(q) /\ SubSeq(q, 1, Len(p)) = p
    \/ \E k \in 1 .. Len(p) :
           /\ k <= Len(q)
           /\ SubSeq(p, 1, k - 1) = SubSeq(q, 1, k - 1)
           /\ p[k] < q[k]

\* C16: extractGeometries leaves every node without geometries, and the
\* list it collects holds every geometry that was attached exactly once,
\* with the node it was attached to, in document order: parents before
\* children, siblings in list order, a node's geometries in list order.
C16_DetachInDocumentOrder ==
    [][ExtractStep =>
          LET collected == scene'.last.collected IN
          /\ \A i \in DOMAIN scene'.nodes : scene'.nodes[i].geometries = <<>>
          /\ \A i \in DOMAIN scene.nodes : \A j \in DOMAIN scene.nodes[i].geometries :
                 Cardinality({k \in DOMAIN collected :
                                 collected[k].geometry = scene.nodes[i].geometries[j]}) = 1
          /\ \A k \in DOMAIN collected :
                 \E j \in DOMAIN scene.nodes[collected[k].node].geometries :
                     scene.nodes[collected[k].node].geometries[j] = collected[k].geometry
          /\ \A a, b \in DOMAIN collected :
                 a < b =>
                     IF collected[a].node = collected[b].node
                     THEN collected[a].geometry < collected[b].geometry
                     ELSE DocBefore(DocPath(scene.nodes, scene.roots, collected[a].node),
                                    DocPath(scene.nodes, scene.roots, collected[b].node))]_vars

\* Two geometries were collected, the first from a child made after the
\* node of the second: document order, not the order the nodes were made in.
C16_Witness ==
    /\ scene.last.op = "extractGeometries"
    /\ Len(scene.last.collected) = 2
    /\ scene.last.collected[1].node > scene.last.collected[2].node
    /\ scene.nodes[scene.last.collected[1].node].parent # 0
    /\ \A i \in DOMAIN scene.nodes : scene.nodes[i].geometries = <<>>

\* The world matrix of a node with no post-transform in it: the root's
\* pre-transform and the transformations from the root down to the node.
RECURSIVE WorldNoPost(_, _)
WorldNoPost(nodes, i) ==
    IF nodes[i].parent = 0
    THEN NodeMatMultiply(nodes[i].transformation_pre, ProductFrom(nodes[i].transformations, 1))
    ELSE NodeMatMultiply(WorldNoPost(nodes, nodes[i].parent),
                         ProductFrom(nodes[i].transformations, 1))

\* C17: after setupWorldTransform(root), for every setting of the
\* unit-scale option and after repeated calls with changed configuration,
\* the root's pre-transform is the global world transform, every non-root
\* node's pre-transform is the inverse of its parent's post-transform, and
\* a node's world matrix holds the post-transform of that node only.
C17_PreUndoesParentPost ==
    /\ scene.last.op = "setupWorldTransform" =>
           scene.nodes[scene.last.node].transformation_pre
               = NodeMatScaling(scene.last.worldScale, 1)
    /\ \A i \in DOMAIN scene.nodes :
           /\ scene.nodes[i].parent # 0 =>
                  /\ NodeMatMultiply(scene.nodes[i].transformation_pre,
                         scene.nodes[scene.nodes[i].parent].transformation_post)
                         = NodeMatIdentity
                  /\ NodeMatMultiply(scene.nodes[scene.nodes[i].parent].transformation_post,
                         scene.nodes[i].transformation_pre)
                         = NodeMatIdentity
           /\ ChainWorld(scene.nodes, i)
                  = NodeMatMultiply(WorldNoPost(scene.nodes, i),
                                    scene.nodes[i].transformation_post)

\* setupWorldTransform ran with unit scaling off and world scale 1 on a
\* tree that an earlier call, with unit scaling on and world scale 2, left
\* with post-transforms: a grandchild's pre-transform is a scaling by 2.
C17_Witness ==
    /\ scene.last.op = "setupWorldTransform"
    /\ ~scene.last.options.worldTransformUnitScale.value
    /\ scene.last.worldScale = 1
    /\ \E i \in DOMAIN scene.nodes :
           /\ scene.nodes[i].parent # 0
           /\ scene.nodes[scene.nodes[i].parent].parent = scene.last.node
           /\ scene.nodes[i].transformation_pre = NodeMatScaling(2, 1)
           /\ scene.nodes[scene.nodes[i].parent].transformation_post = NodeMatScaling(1, 2)

\* C18 as stated: after pruneNodes the caller's list and every children
\* list below it hold only nodes with at least one geometry or at least
\* one child.
C18_PrunedListsRelevant ==
    scene.last.op = "pruneNodes" =>
        LET Relevant(i) ==
                Len(scene.nodes[i].geometries) > 0 \/ Len(scene.nodes[i].children) > 0
        IN  /\ \A k \in DOMAIN scene.roots : Relevant(scene.roots[k])
            /\ \A i \in DOMAIN scene.nodes :
                   \A k \in DOMAIN scene.nodes[i].children :
                       Relevant(scene.nodes[i].children[k])

(***************************************************************************)
(* Claims about the frame wrapping of sampleAnimation                      *)
(***************************************************************************)

\* C21 as stated: for an animation of at least one frame and any frame
\* passed to sampleAnimation, negative and fractional ones included, the
\* keyframe indices f1 and f2 lie in 0 .. frames - 1, the blend factor lies
\* in [0, 1), and every track read at f*3 + k and f*4 + k is inside an
\* array of that many keyframes.
C21_FrameIndicesInRange ==
    (last.op = "sample" /\ animation.frames >= 1) =>
        LET fp == FrameParams(animation, last.frameNum) IN
        /\ fp.f1 \in 0 .. animation.frames - 1
        /\ fp.f2 \in 0 .. animation.frames - 1
        /\ fp.s2 \in 0 .. FrameDen - 1
        /\ \A f \in {fp.f1, fp.f2} :
               /\ \A k \in 0 .. 2 : f * 3 + k \in 0 .. 3 * animation.frames - 1
               /\ \A k \in 0 .. 3 : f * 4 + k \in 0 .. 4 * animation.frames - 1

=============================================================================
